---- MODULE Spec2Model ----
(***************************************************************************)
(* The NCCO request builder of nexmo/request.py: RequestAction and its six *)
(* kinds, RequestJsonEncoder and Request.  The module is Python 2 code     *)
(* (dict.iteritems, filter returning a container), so Python 2 semantics   *)
(* are modelled.                                                           *)
(*                                                                         *)
(* A Python str is a sequence of one-character strings.  A Python value is *)
(* a record tagged with its type name in field t.  A dict is a function    *)
(* from its keys; the iteration order of a dict is not modelled, except    *)
(* for **kwargs, which are sequences of <<name, value>> pairs in the order *)
(* kwargs.items() yields them.                                             *)
(*                                                                         *)
(* Of nexmo/response.py the module has class ResponseAction and the        *)
(* constructor of its kind Talk.                                           *)
(***************************************************************************)
EXTENDS Integers, Sequences, FiniteSets, TLC

VARIABLES
    instances,  \* the RequestAction objects built so far: [action, options]
    made,       \* per instance, the constructor call that built it and
                \* whether a caller has changed its options since
    requests,   \* the Request objects: [actions, json_options]; actions
                \* holds references (indexes into instances)
    call,       \* the last API call: its name, receiver, arguments, the
                \* exception it raised (NoExc if none) and its return value
    ResponseAction_options,  \* the attribute options of class ResponseAction
    responses   \* the response-side action objects: the attributes each
                \* instance holds itself

request_vars == <<instances, made, requests>>
response_vars == <<ResponseAction_options, responses>>
vars == <<instances, made, requests, call, ResponseAction_options, responses>>

----------------------------------------------------------------------------
(* String literals of the source, as character sequences.                  *)

W_action == <<"a", "c", "t", "i", "o", "n">>
W_from == <<"f", "r", "o", "m">>
W__from == <<"_", "f", "r", "o", "m">>
W_record == <<"r", "e", "c", "o", "r", "d">>
W_conversation == <<"c", "o", "n", "v", "e", "r", "s", "a", "t", "i", "o", "n">>
W_connect == <<"c", "o", "n", "n", "e", "c", "t">>
W_talk == <<"t", "a", "l", "k">>
W_stream == <<"s", "t", "r", "e", "a", "m">>
W_input == <<"i", "n", "p", "u", "t">>
W_event_url == <<"e", "v", "e", "n", "t", "_", "u", "r", "l">>
W_event_method == <<"e", "v", "e", "n", "t", "_", "m", "e", "t", "h", "o", "d">>
W_format == <<"f", "o", "r", "m", "a", "t">>
W_end_on_silence == <<"e", "n", "d", "_", "o", "n", "_", "s", "i", "l", "e", "n", "c", "e">>
W_end_on_key == <<"e", "n", "d", "_", "o", "n", "_", "k", "e", "y">>
W_time_out == <<"t", "i", "m", "e", "_", "o", "u", "t">>
W_beep_start == <<"b", "e", "e", "p", "_", "s", "t", "a", "r", "t">>
W_name == <<"n", "a", "m", "e">>
W_music_on_hold_url == <<"m", "u", "s", "i", "c", "_", "o", "n", "_", "h", "o", "l", "d", "_", "u", "r", "l">>
W_start_on_enter == <<"s", "t", "a", "r", "t", "_", "o", "n", "_", "e", "n", "t", "e", "r">>
W_end_on_exit == <<"e", "n", "d", "_", "o", "n", "_", "e", "x", "i", "t">>
W_endpoint == <<"e", "n", "d", "p", "o", "i", "n", "t">>
W_event_type == <<"e", "v", "e", "n", "t", "_", "t", "y", "p", "e">>
W_timeout == <<"t", "i", "m", "e", "o", "u", "t">>
W_limit == <<"l", "i", "m", "i", "t">>
W_machine_detection == <<"m", "a", "c", "h", "i", "n", "e", "_", "d", "e", "t", "e", "c", "t", "i", "o", "n">>
W_text == <<"t", "e", "x", "t">>
W_barge_in == <<"b", "a", "r", "g", "e", "_", "i", "n">>
W_loop == <<"l", "o", "o", "p">>
W_voice_name == <<"v", "o", "i", "c", "e", "_", "n", "a", "m", "e">>
W_stream_url == <<"s", "t", "r", "e", "a", "m", "_", "u", "r", "l">>
W_level == <<"l", "e", "v", "e", "l">>
W_max_digits == <<"m", "a", "x", "_", "d", "i", "g", "i", "t", "s">>
W_submit_on_hash == <<"s", "u", "b", "m", "i", "t", "_", "o", "n", "_", "h", "a", "s", "h">>
W_POST == <<"P", "O", "S", "T">>
W_mp3 == <<"m", "p", "3">>
W_Kimberly == <<"K", "i", "m", "b", "e", "r", "l", "y">>
W_True == <<"T", "r", "u", "e">>
W_False == <<"F", "a", "l", "s", "e">>
W_true == <<"t", "r", "u", "e">>
W_false == <<"f", "a", "l", "s", "e">>
W_hello == <<"h", "e", "l", "l", "o">>
W_type == <<"t", "y", "p", "e">>
W_phone == <<"p", "h", "o", "n", "e">>
W_number == <<"n", "u", "m", "b", "e", "r">>
W_123 == <<"1", "2", "3">>
W_vip == <<"v", "i", "p">>
W_http_x == <<"h", "t", "t", "p", ":", "/", "/", "x">>
W_room == <<"r", "o", "o", "m">>
W_custom_flag == <<"c", "u", "s", "t", "o", "m", "_", "f", "l", "a", "g">>
W_indent == <<"i", "n", "d", "e", "n", "t">>
W_sort_keys == <<"s", "o", "r", "t", "_", "k", "e", "y", "s">>

----------------------------------------------------------------------------
(* str methods.                                                            *)

Lowers == <<"a", "b", "c", "d", "e", "f", "g", "h", "i", "j", "k", "l", "m",
            "n", "o", "p", "q", "r", "s", "t", "u", "v", "w", "x", "y", "z">>
Uppers == <<"A", "B", "C", "D", "E", "F", "G", "H", "I", "J", "K", "L", "M",
            "N", "O", "P", "Q", "R", "S", "T", "U", "V", "W", "X", "Y", "Z">>

islower(c) == \E i \in DOMAIN Lowers : Lowers[i] = c
isupper(c) == \E i \in DOMAIN Uppers : Uppers[i] = c
tolower(c) == IF isupper(c) THEN Lowers[CHOOSE i \in DOMAIN Uppers : Uppers[i] = c] ELSE c
toupper(c) == IF islower(c) THEN Uppers[CHOOSE i \in DOMAIN Lowers : Lowers[i] = c] ELSE c

\* s.lower()
lower(s) == [i \in 1..Len(s) |-> tolower(s[i])]

\* s.title(): a cased character is upper-cased when the character before it
\* is not cased (or there is none), and lower-cased otherwise.
title(s) ==
    [i \in 1..Len(s) |->
        LET previous_is_cased == i > 1 /\ (islower(s[i-1]) \/ isupper(s[i-1]))
        IN  IF islower(s[i]) THEN (IF previous_is_cased THEN s[i] ELSE toupper(s[i]))
            ELSE IF isupper(s[i]) THEN (IF previous_is_cased THEN tolower(s[i]) ELSE s[i])
            ELSE s[i]]

\* s.split(sep), sep one character
RECURSIVE split(_, _)
split(s, sep) ==
    IF \A i \in 1..Len(s) : s[i] # sep THEN <<s>>
    ELSE LET i == CHOOSE k \in 1..Len(s) : s[k] = sep /\ \A j \in 1..(k-1) : s[j] # sep
         IN  <<SubSeq(s, 1, i-1)>> \o split(SubSeq(s, i+1, Len(s)), sep)

\* ''.join(words)
RECURSIVE join(_)
join(words) == IF Len(words) = 0 THEN <<>> ELSE words[1] \o join(Tail(words))

----------------------------------------------------------------------------
(* Python values.                                                          *)

NoneV == [t |-> "NoneType"]
BoolV(b) == [t |-> "bool", v |-> b]
IntV(n) == [t |-> "int", v |-> n]
StrV(s) == [t |-> "str", v |-> s]
ListV(s) == [t |-> "list", v |-> s]
TupleV(s) == [t |-> "tuple", v |-> s]
DictV(f) == [t |-> "dict", v |-> f]
TypeV(n) == [t |-> "type", v |-> n]

IsNone(v) == v.t = "NoneType"

\* the truth value of v in a condition
Truthy(v) ==
    CASE v.t = "NoneType" -> FALSE
      [] v.t = "bool" -> v.v
      [] v.t = "int" -> v.v # 0
      [] v.t \in {"str", "list", "tuple"} -> Len(v.v) > 0
      [] v.t = "dict" -> DOMAIN v.v # {}
      [] OTHER -> TRUE

\* isinstance(v, cls); bool is a subclass of int
isinstance(v, cls) == v.t = cls.v \/ (v.t = "bool" /\ cls.v = "int")

\* str(b) of a bool
str(b) == IF b.v THEN W_True ELSE W_False

\* d[k] = v and {} of a dict
EmptyDict == <<>>
DictSet(d, k, v) == [x \in (DOMAIN d) \cup {k} |-> IF x = k THEN v ELSE d[x]]

\* what iterating v yields; a str yields its characters, a dict its keys
RECURSIVE SetToSeq(_)
SetToSeq(S) == IF S = {} THEN <<>> ELSE LET x == CHOOSE y \in S : TRUE IN <<x>> \o SetToSeq(S \ {x})
Iterable(v) == v.t \in {"str", "list", "tuple", "dict"}
Items(v) ==
    CASE v.t \in {"list", "tuple"} -> v.v
      [] v.t = "str" -> [i \in 1..Len(v.v) |-> StrV(<<v.v[i]>>)]
      [] v.t = "dict" -> SetToSeq({StrV(k) : k \in DOMAIN v.v})

----------------------------------------------------------------------------
(* class RequestAction.  An instance is [action, options]; a method that   *)
(* changes self returns the changed instance.                              *)

NoExc == "none"

\* _snake_case_to_camel that upper-cases the first character of a later
\* word and leaves the rest of the word as it is
_snake_case_to_camel_first(name) ==
    LET words == split(name, "_")
        capitalize(w) == [i \in 1..Len(w) |-> IF i = 1 THEN toupper(w[i]) ELSE w[i]]
    IN  IF Len(words) # 0 /\ Len(words) > 1
        THEN words[1] \o join([i \in 1..(Len(words) - 1) |-> capitalize(words[i+1])])
        ELSE lower(name)

_snake_case_to_camel(name) ==
    LET words == split(name, "_")
    IN  IF Len(words) # 0 /\ Len(words) > 1
        THEN words[1] \o join([i \in 1..(Len(words) - 1) |-> title(words[i+1])])
        ELSE lower(name)

\* add_option without the special case for _from
add_option_plain(self, name, value) ==
    LET key == _snake_case_to_camel(name)
        value1 == IF value.t = "bool" THEN StrV(lower(str(value))) ELSE value
    IN  [self EXCEPT !.options = DictSet(@, key, value1)]

\* The warning for a name that is not lower case changes nothing and is
\* left out.
add_option(self, name, value) ==
    LET name1 == IF name = W__from THEN W_from ELSE name
        key == _snake_case_to_camel(name1)
        value1 == IF value.t = "bool" THEN StrV(lower(str(value))) ELSE value
    IN  [self EXCEPT !.options = DictSet(@, key, value1)]

\* add_options that records a None value whatever skip_none_value is
RECURSIVE add_options_all(_, _, _)
add_options_all(self, skip_none_value, kwargs) ==
    IF Len(kwargs) = 0 THEN self
    ELSE add_options_all(add_option(self, kwargs[1][1], kwargs[1][2]),
                         skip_none_value, Tail(kwargs))

RECURSIVE add_options(_, _, _)
add_options(self, skip_none_value, kwargs) ==
    IF Len(kwargs) = 0 THEN self
    ELSE LET k == kwargs[1][1]
             v == kwargs[1][2]
         IN  IF skip_none_value /\ IsNone(v)
             THEN add_options(self, skip_none_value, Tail(kwargs))
             ELSE add_options(add_option(self, k, v), skip_none_value, Tail(kwargs))

\* filter(lambda itm: not isinstance(itm, sub_type), the_list): the items
\* kept.  It raises TypeError when the_list cannot be iterated, and when
\* isinstance is called with a sub_type that is not a type.
filter_raises(sub_type, the_list) ==
    \/ ~Iterable(the_list)
    \/ Len(Items(the_list)) > 0 /\ sub_type.t # "type"
filter(sub_type, the_list) ==
    SelectSeq(Items(the_list), LAMBDA itm : ~isinstance(itm, sub_type))

\* Returns [exc, self]: on an exception self keeps the options added before
\* it was raised.
RECURSIVE add_lists(_, _, _, _)
add_lists(self, sub_type, skip_none_value, kwargs) ==
    IF Len(kwargs) = 0 THEN [exc |-> NoExc, self |-> self]
    ELSE LET name == kwargs[1][1]
             the_list == kwargs[1][2]
         IN  IF skip_none_value /\ IsNone(the_list)
                 THEN add_lists(self, sub_type, skip_none_value, Tail(kwargs))
             ELSE IF ~IsNone(sub_type) /\ filter_raises(sub_type, the_list)
                 THEN [exc |-> "TypeError", self |-> self]
             ELSE IF ~IsNone(sub_type) /\ Len(filter(sub_type, the_list)) > 0
                 THEN [exc |-> "ValueError", self |-> self]
             ELSE IF Truthy(the_list) /\ ~isinstance(the_list, TypeV("list"))
                 THEN [exc |-> "ValueError", self |-> self]
             ELSE add_lists(add_option(self, name, the_list), sub_type,
                            skip_none_value, Tail(kwargs))

\* Returns [exc, self].  The shape test is the one of add_lists: it asks
\* for a list, not for a dict.
RECURSIVE add_dict(_, _, _)
add_dict(self, skip_none_value, kwargs) ==
    IF Len(kwargs) = 0 THEN [exc |-> NoExc, self |-> self]
    ELSE LET name == kwargs[1][1]
             the_dict == kwargs[1][2]
         IN  IF skip_none_value /\ IsNone(the_dict)
                 THEN add_dict(self, skip_none_value, Tail(kwargs))
             ELSE IF Truthy(the_dict) /\ ~isinstance(the_dict, TypeV("list"))
                 THEN [exc |-> "ValueError", self |-> self]
             ELSE add_dict(add_option(self, name, the_dict), skip_none_value, Tail(kwargs))

clear_options(self) == [self EXCEPT !.options = EmptyDict]

\* _get_dict that moves the options out of the instance
_get_dict_move(self) ==
    [ret |-> DictSet(self.options, W_action, StrV(self.action)),
     self |-> [self EXCEPT !.options = EmptyDict]]

\* _get_dict that keeps an option stored under the key action
_get_dict_keep(self) ==
    IF DOMAIN self.options # {}
    THEN LET options == IF W_action \in DOMAIN self.options THEN self.options
                        ELSE DictSet(self.options, W_action, StrV(self.action))
         IN  [ret |-> options, self |-> [self EXCEPT !.options = options]]
    ELSE [ret |-> DictSet(EmptyDict, W_action, StrV(self.action)), self |-> self]

\* Returns [ret, self].  "self.options or {}" is self.options itself unless
\* it is empty, and update() then writes the key into the instance.
_get_dict(self) ==
    IF DOMAIN self.options # {}
    THEN LET options == DictSet(self.options, W_action, StrV(self.action))
         IN  [ret |-> options, self |-> [self EXCEPT !.options = options]]
    ELSE [ret |-> DictSet(EmptyDict, W_action, StrV(self.action)), self |-> self]

\* RequestAction.__init__ that skips passthrough arguments that are None
RequestAction__init__skip(action, kwargs) ==
    add_options([action |-> action, options |-> EmptyDict], TRUE, kwargs)

RequestAction__init__(action, kwargs) ==
    add_options([action |-> action, options |-> EmptyDict], FALSE, kwargs)

----------------------------------------------------------------------------
(* class RequestJsonEncoder and json.dumps.                                *)

\* normalize_dict that does not descend into mappings
RECURSIVE normalize_dict_flat(_)
normalize_dict_flat(obj) ==
    CASE obj.t = "bool" -> StrV(lower(str(obj)))
      [] obj.t \in {"list", "tuple"} ->
            ListV([i \in 1..Len(obj.v) |-> normalize_dict_flat(obj.v[i])])
      [] OTHER -> obj

RECURSIVE normalize_dict(_)
normalize_dict(obj) ==
    CASE obj.t = "bool" -> StrV(lower(str(obj)))
      [] obj.t \in {"list", "tuple"} ->
            ListV([i \in 1..Len(obj.v) |-> normalize_dict(obj.v[i])])
      [] obj.t = "dict" -> DictV([key \in DOMAIN obj.v |-> normalize_dict(obj.v[key])])
      [] OTHER -> obj

\* default(o) for a RequestAction o; dict(o) copies the pairs of
\* o._get_dict().  Returns [ret, self].  The values of the model are all
\* JSON types, so default is called for nothing else.
default(o) ==
    LET d == _get_dict(o)
    IN  [ret |-> normalize_dict(DictV(d.ret)), self |-> d.self]

\* The JSON text json.dumps writes for a value, as its syntax tree: null,
\* true, false, a string, a number, an array or an object.
RECURSIVE json_encode(_)
json_encode(v) ==
    CASE v.t = "NoneType" -> [j |-> "null"]
      [] v.t = "bool" -> [j |-> IF v.v THEN "true" ELSE "false"]
      [] v.t = "int" -> [j |-> "number", v |-> v.v]
      [] v.t = "str" -> [j |-> "string", v |-> v.v]
      [] v.t \in {"list", "tuple"} ->
            [j |-> "array", v |-> [i \in 1..Len(v.v) |-> json_encode(v.v[i])]]
      [] v.t = "dict" ->
            [j |-> "object", v |-> [key \in DOMAIN v.v |-> json_encode(v.v[key])]]

\* json.dumps(request, cls=RequestJsonEncoder) of a list of instances,
\* given as references ids into heap.  Returns [ret, heap]: the array's
\* elements and the heap after the calls of default.
RECURSIVE dumps(_, _)
dumps(ids, heap) ==
    IF Len(ids) = 0 THEN [ret |-> <<>>, heap |-> heap]
    ELSE LET d == default(heap[ids[1]])
             rest == dumps(Tail(ids), [heap EXCEPT ![ids[1]] = d.self])
         IN  [ret |-> <<json_encode(d.ret)>> \o rest.ret, heap |-> rest.heap]

----------------------------------------------------------------------------
(* class Request.                                                          *)

Request__init__(pretty, sort_keys, json_options) ==
    LET o1 == json_options
        o2 == IF pretty THEN DictSet(o1, W_indent, IntV(4)) ELSE o1
        o3 == IF sort_keys THEN DictSet(o2, W_sort_keys, BoolV(sort_keys)) ELSE o2
    IN  [actions |-> <<>>, json_options |-> o3]

\* add_action that inserts at the front
add_action_front(self, action) == [self EXCEPT !.actions = <<action>> \o @]

add_action(self, action) == [self EXCEPT !.actions = Append(@, action)]

\* Returns [ret, heap]; ret is the JSON array with the formatting options
\* handed to json.dumps.
get_json_string(self, heap) ==
    LET d == dumps(self.actions, heap)
    IN  [ret |-> [j |-> "array", v |-> d.ret, json_options |-> self.json_options],
         heap |-> d.heap]

----------------------------------------------------------------------------
(* The six kinds.  A constructor takes its arguments as a record a, with   *)
(* a.kwargs the passthrough keyword arguments, and returns [exc, self].    *)
(* The keyword arguments a constructor hands to add_lists and add_options  *)
(* have distinct wire keys, so the order of their items does not matter;   *)
(* they are listed in the order of the source.                             *)

Record__init__(a) ==
    LET s0 == RequestAction__init__(W_record, a.kwargs)
        r1 == add_lists(s0, NoneV, TRUE, << <<W_event_url, a.event_url>> >>)
    IN  IF r1.exc # NoExc THEN r1
        ELSE [exc |-> NoExc,
              self |-> add_options(r1.self, TRUE,
                         << <<W_event_method, a.event_method>>, <<W_format, a.format>>,
                            <<W_end_on_silence, a.end_on_silence>>,
                            <<W_end_on_key, a.end_on_key>>, <<W_time_out, a.time_out>>,
                            <<W_beep_start, a.beep_start>> >>)]

Conversation__init__(a) ==
    LET s0 == RequestAction__init__(W_conversation, a.kwargs)
        r1 == add_lists(s0, NoneV, TRUE, << <<W_event_url, a.event_url>>,
                                            <<W_music_on_hold_url, a.music_on_hold_url>> >>)
    IN  IF r1.exc # NoExc THEN r1
        ELSE [exc |-> NoExc,
              self |-> add_options(r1.self, TRUE,
                         << <<W_name, a.name>>, <<W_event_method, a.event_method>>,
                            <<W_start_on_enter, a.start_on_enter>>,
                            <<W_end_on_exit, a.end_on_exit>>, <<W_record, a.record>> >>)]

Connect__init__(a) ==
    LET s0 == RequestAction__init__(W_connect, a.kwargs)
        r1 == add_lists(s0, TypeV("dict"), TRUE, << <<W_endpoint, a.endpoint>> >>)
        r2 == add_lists(r1.self, NoneV, TRUE, << <<W_event_url, a.event_url>> >>)
    IN  IF r1.exc # NoExc THEN r1
        ELSE IF r2.exc # NoExc THEN r2
        ELSE [exc |-> NoExc,
              self |-> add_options(r2.self, TRUE,
                         << <<W_event_method, a.event_method>>, <<W__from, a._from>>,
                            <<W_event_type, a.event_type>>, <<W_timeout, a.timeout>>,
                            <<W_limit, a.limit>>,
                            <<W_machine_detection, a.machine_detection>> >>)]

Talk__init__(a) ==
    LET s0 == RequestAction__init__(W_talk, a.kwargs)
    IN  [exc |-> NoExc,
         self |-> add_options(s0, TRUE,
                    << <<W_text, a.text>>, <<W_barge_in, a.barge_in>>,
                       <<W_loop, a.loop>>, <<W_voice_name, a.voice_name>> >>)]

\* self.add_lists(stream_url): stream_url is bound to the first parameter,
\* sub_type, and no name=list pair is passed.
Stream__init__(a) ==
    LET s0 == RequestAction__init__(W_stream, a.kwargs)
        r1 == add_lists(s0, a.stream_url, TRUE, <<>>)
    IN  IF r1.exc # NoExc THEN r1
        ELSE [exc |-> NoExc,
              self |-> add_options(r1.self, TRUE,
                         << <<W_level, a.level>>, <<W_barge_in, a.barge_in>>,
                            <<W_loop, a.loop>> >>)]

Input__init__(a) ==
    LET s0 == RequestAction__init__(W_input, a.kwargs)
        r1 == add_lists(s0, NoneV, TRUE, << <<W_event_url, a.event_url>> >>)
    IN  IF r1.exc # NoExc THEN r1
        ELSE [exc |-> NoExc,
              self |-> add_options(r1.self, TRUE,
                         << <<W_max_digits, a.max_digits>>, <<W_time_out, a.time_out>>,
                            <<W_submit_on_hash, a.submit_on_hash>>,
                            <<W_event_method, a.event_method>> >>)]

\* The defaults of the constructors' signatures.
RecordDefaults ==
    [event_url |-> NoneV, event_method |-> StrV(W_POST), format |-> StrV(W_mp3),
     end_on_silence |-> NoneV, end_on_key |-> NoneV, time_out |-> NoneV,
     beep_start |-> NoneV, kwargs |-> <<>>]
ConversationDefaults(name) ==
    [name |-> name, event_url |-> NoneV, event_method |-> StrV(W_POST),
     music_on_hold_url |-> NoneV, start_on_enter |-> NoneV, end_on_exit |-> NoneV,
     record |-> NoneV, kwargs |-> <<>>]
ConnectDefaults(endpoint, event_url) ==
    [endpoint |-> endpoint, event_url |-> event_url, event_method |-> StrV(W_POST),
     _from |-> NoneV, event_type |-> NoneV, timeout |-> IntV(60), limit |-> IntV(7200),
     machine_detection |-> NoneV, kwargs |-> <<>>]
TalkDefaults(text) ==
    [text |-> text, barge_in |-> BoolV(FALSE), loop |-> IntV(1),
     voice_name |-> StrV(W_Kimberly), kwargs |-> <<>>]
StreamDefaults(stream_url) ==
    [stream_url |-> stream_url, level |-> IntV(0), barge_in |-> BoolV(FALSE),
     loop |-> IntV(1), kwargs |-> <<>>]
InputDefaults ==
    [event_url |-> NoneV, time_out |-> IntV(3), max_digits |-> NoneV,
     submit_on_hash |-> BoolV(FALSE), event_method |-> StrV(W_POST), kwargs |-> <<>>]

----------------------------------------------------------------------------
(* class ResponseAction of nexmo/response.py.  The class body binds the    *)
(* attribute options of the class to one dict; no method assigns           *)
(* self.options, so an instance holds the attributes in its own record     *)
(* (action, once __init__ assigned it) and self.options is looked up in    *)
(* the instance first and in the class next.  A method that changes the    *)
(* dict behind self.options returns [self, options]: the instance and the  *)
(* dict of the class after the call.                                       *)

ResponseAction__snake_case_to_camel(name) ==
    LET words == split(name, "_")
    IN  IF Len(words) > 1
        THEN words[1] \o join([i \in 1..(Len(words) - 1) |-> title(words[i + 1])])
        ELSE lower(name)

\* the dict self.options evaluates to
ResponseAction_getattr_options(self, options) ==
    IF "options" \in DOMAIN self THEN self.options ELSE options

ResponseAction_add_option(self, options, name, value) ==
    LET key == ResponseAction__snake_case_to_camel(name)
    IN  IF "options" \in DOMAIN self
        THEN [self |-> [self EXCEPT !.options = DictSet(@, key, value)], options |-> options]
        ELSE [self |-> self, options |-> DictSet(options, key, value)]

RECURSIVE ResponseAction_add_options(_, _, _)
ResponseAction_add_options(self, options, kwargs) ==
    IF Len(kwargs) = 0 THEN [self |-> self, options |-> options]
    ELSE LET r == ResponseAction_add_option(self, options, kwargs[1][1], kwargs[1][2])
         IN  ResponseAction_add_options(r.self, r.options, Tail(kwargs))

ResponseAction_clear_options(self, options) ==
    IF "options" \in DOMAIN self
    THEN [self |-> [self EXCEPT !.options = EmptyDict], options |-> options]
    ELSE [self |-> self, options |-> EmptyDict]

\* Returns [exc, self].  self.add_options(kwargs) hands the dict over as a
\* positional argument to a method that takes keywords only: TypeError,
\* whatever kwargs holds.
ResponseAction__init__(self, action, kwargs) ==
    [exc |-> "TypeError", self |-> [x \in DOMAIN self \cup {"action"} |->
                                        IF x = "action" THEN StrV(action) ELSE self[x]]]

\* Talk.__init__ of response.py.  Returns [exc, self].  Its first statement
\* is super(Talk, self).__init__(action).  The bases of Talk are (object,
\* ResponseAction): with object first the call is object.__init__('talk'),
\* which raises TypeError for a class that overrides __init__; were
\* ResponseAction.__init__ the one called, it raises TypeError too.
ResponseTalk__init__(self, a) == [exc |-> "TypeError", self |-> self]

----------------------------------------------------------------------------
(* The API calls a caller can make, as actions.                            *)

Call(op, self, args, exc, ret) ==
    [op |-> op, self |-> self, args |-> args, exc |-> exc, ret |-> ret]

\* A constructor call with result r = [exc, self]: a constructor that
\* raises leaves no instance behind.
Construct(op, a, r) ==
    /\ IF r.exc = NoExc
       THEN /\ instances' = Append(instances, r.self)
            /\ made' = Append(made, [op |-> op, args |-> a, touched |-> FALSE])
            /\ call' = Call(op, Len(instances) + 1, a, NoExc, NoneV)
       ELSE /\ UNCHANGED <<instances, made>>
            /\ call' = Call(op, 0, a, r.exc, NoneV)
    /\ UNCHANGED <<requests, response_vars>>

NewRecord(a) == Construct("Record", a, Record__init__(a))
NewConversation(a) == Construct("Conversation", a, Conversation__init__(a))
NewConnect(a) == Construct("Connect", a, Connect__init__(a))
NewTalk(a) == Construct("Talk", a, Talk__init__(a))
NewStream(a) == Construct("Stream", a, Stream__init__(a))
NewInput(a) == Construct("Input", a, Input__init__(a))

AddOption(i, name, value) ==
    /\ instances' = [instances EXCEPT ![i] = add_option(@, name, value)]
    /\ made' = [made EXCEPT ![i].touched = TRUE]
    /\ call' = Call("add_option", i, <<name, value>>, NoExc, NoneV)
    /\ UNCHANGED <<requests, response_vars>>

AddOptions(i, kwargs) ==
    /\ instances' = [instances EXCEPT ![i] = add_options(@, TRUE, kwargs)]
    /\ made' = [made EXCEPT ![i].touched = TRUE]
    /\ call' = Call("add_options", i, kwargs, NoExc, NoneV)
    /\ UNCHANGED <<requests, response_vars>>

AddLists(i, sub_type, kwargs) ==
    LET r == add_lists(instances[i], sub_type, TRUE, kwargs)
    IN  /\ instances' = [instances EXCEPT ![i] = r.self]
        /\ made' = [made EXCEPT ![i].touched = TRUE]
        /\ call' = Call("add_lists", i, <<sub_type, kwargs>>, r.exc, NoneV)
        /\ UNCHANGED <<requests, response_vars>>

AddDict(i, skip_none_value, kwargs) ==
    LET r == add_dict(instances[i], skip_none_value, kwargs)
    IN  /\ instances' = [instances EXCEPT ![i] = r.self]
        /\ made' = [made EXCEPT ![i].touched = TRUE]
        /\ call' = Call("add_dict", i, <<skip_none_value, kwargs>>, r.exc, NoneV)
        /\ UNCHANGED <<requests, response_vars>>

\* clear_options on a dict that all instances share
ClearOptionsAll(i) ==
    /\ instances' = [j \in DOMAIN instances |-> clear_options(instances[j])]
    /\ made' = [made EXCEPT ![i].touched = TRUE]
    /\ call' = Call("clear_options", i, <<>>, NoExc, NoneV)
    /\ UNCHANGED <<requests, response_vars>>

ClearOptions(i) ==
    /\ instances' = [instances EXCEPT ![i] = clear_options(@)]
    /\ made' = [made EXCEPT ![i].touched = TRUE]
    /\ call' = Call("clear_options", i, <<>>, NoExc, NoneV)
    /\ UNCHANGED <<requests, response_vars>>

AddAction(r, i) ==
    /\ requests' = [requests EXCEPT ![r] = add_action(@, i)]
    /\ call' = Call("add_action", r, i, NoExc, NoneV)
    /\ UNCHANGED <<instances, made, response_vars>>

GetJsonString(r) ==
    LET g == get_json_string(requests[r], instances)
    IN  /\ instances' = g.heap
        /\ call' = Call("get_json_string", r, <<>>, NoExc, g.ret)
        /\ UNCHANGED <<made, requests, response_vars>>

\* A response-side constructor call with result r = [exc, self].
ResponseConstruct(op, a, r) ==
    /\ IF r.exc = NoExc
       THEN /\ responses' = Append(responses, r.self)
            /\ call' = Call(op, Len(responses) + 1, a, NoExc, NoneV)
       ELSE /\ UNCHANGED responses
            /\ call' = Call(op, 0, a, r.exc, NoneV)
    /\ UNCHANGED <<request_vars, ResponseAction_options>>

NewResponseAction(action, kwargs) ==
    ResponseConstruct("ResponseAction", <<action, kwargs>>, ResponseAction__init__(<<>>, action, kwargs))
NewResponseTalk(a) == ResponseConstruct("Talk", a, ResponseTalk__init__(<<>>, a))

\* Talk.__new__(Talk): object.__new__, which Talk inherits, makes an
\* instance with no attribute of its own and runs no __init__.
ResponseTalk__new__ ==
    /\ responses' = Append(responses, <<>>)
    /\ call' = Call("Talk.__new__", Len(responses) + 1, <<>>, NoExc, NoneV)
    /\ UNCHANGED <<request_vars, ResponseAction_options>>

ResponseAddOption(i, name, value) ==
    LET r == ResponseAction_add_option(responses[i], ResponseAction_options, name, value)
    IN  /\ responses' = [responses EXCEPT ![i] = r.self]
        /\ ResponseAction_options' = r.options
        /\ call' = Call("add_option", i, <<name, value>>, NoExc, NoneV)
        /\ UNCHANGED request_vars

ResponseAddOptions(i, kwargs) ==
    LET r == ResponseAction_add_options(responses[i], ResponseAction_options, kwargs)
    IN  /\ responses' = [responses EXCEPT ![i] = r.self]
        /\ ResponseAction_options' = r.options
        /\ call' = Call("add_options", i, kwargs, NoExc, NoneV)
        /\ UNCHANGED request_vars

ResponseClearOptions(i) ==
    LET r == ResponseAction_clear_options(responses[i], ResponseAction_options)
    IN  /\ responses' = [responses EXCEPT ![i] = r.self]
        /\ ResponseAction_options' = r.options
        /\ call' = Call("clear_options", i, <<>>, NoExc, NoneV)
        /\ UNCHANGED request_vars

----------------------------------------------------------------------------
(* Spec: the life of a document.  One Request, up to MaxInstances actions  *)
(* and up to MaxActions appends.                                           *)

MaxInstances == 2
MaxActions == 2

\* Request() and Request(pretty=True, sort_keys=True)
RequestArgs == {<<FALSE, FALSE>>, <<TRUE, TRUE>>}

NewRequest(pretty, sort_keys) ==
    /\ instances = <<>>
    /\ made = <<>>
    /\ requests = <<Request__init__(pretty, sort_keys, EmptyDict)>>
    /\ call = Call("Request", 1, <<pretty, sort_keys>>, NoExc, NoneV)
    /\ ResponseAction_options = EmptyDict
    /\ responses = <<>>

Init == \E a \in RequestArgs : NewRequest(a[1], a[2])

\* Talk(text="hello", barge_in=True)
DocTalkArgs == {[TalkDefaults(StrV(W_hello)) EXCEPT !.barge_in = BoolV(TRUE)]}
DocOptions == {<<W_beep_start, BoolV(TRUE)>>}

Next ==
    \/ Len(instances) < MaxInstances /\ NewRecord(RecordDefaults)
    \/ Len(instances) < MaxInstances /\ \E a \in DocTalkArgs : NewTalk(a)
    \/ \E i \in DOMAIN instances, o \in DocOptions : AddOption(i, o[1], o[2])
    \/ \E i \in DOMAIN instances : ClearOptions(i)
    \/ \E r \in DOMAIN requests, i \in DOMAIN instances :
            Len(requests[r].actions) < MaxActions /\ AddAction(r, i)
    \/ \E r \in DOMAIN requests : GetJsonString(r)

Spec == Init /\ [][Next]_vars

----------------------------------------------------------------------------
(* SpecAction: the life of one action.  It is built by any of the six      *)
(* constructors with arguments drawn from the sets below (a constructor    *)
(* that raises ends the run), may have options added and cleared, and is   *)
(* appended to a Request() and serialized.                                 *)

PhoneEndpoint == DictV((W_type :> StrV(W_phone)) @@ (W_number :> StrV(W_123)))
VipEndpoint == DictV((W_type :> StrV(W_phone)) @@ (W_vip :> BoolV(TRUE)))

UrlLists == {NoneV, ListV(<<StrV(W_http_x)>>), StrV(W_http_x)}
Endpoints ==
    {NoneV, StrV(<<>>), StrV(W_123), IntV(0), IntV(5), DictV(EmptyDict), PhoneEndpoint,
     ListV(<<>>), ListV(<<PhoneEndpoint>>), ListV(<<VipEndpoint>>), ListV(<<StrV(W_123)>>),
     ListV(<<PhoneEndpoint, StrV(W_123)>>), TupleV(<<>>), TupleV(<<PhoneEndpoint>>)}
StreamUrls ==
    {NoneV, ListV(<<>>), ListV(<<StrV(W_http_x)>>), StrV(W_http_x), IntV(5), PhoneEndpoint}
\* passthrough keyword arguments; event_Url has the wire key eventUrl
W_event_Url == <<"e", "v", "e", "n", "t", "_", "U", "r", "l">>
Kwargs ==
    {<<>>, << <<W_custom_flag, NoneV>> >>, << <<W_custom_flag, BoolV(TRUE)>> >>,
     << <<W_event_Url, NoneV>> >>}

RecordArgs ==
    [event_url : UrlLists, event_method : {StrV(W_POST)}, format : {StrV(W_mp3)},
     end_on_silence : {NoneV, IntV(3)}, end_on_key : {NoneV},
     time_out : {NoneV, IntV(0)}, beep_start : {NoneV, BoolV(TRUE), BoolV(FALSE)},
     kwargs : Kwargs]
ConversationArgs ==
    [name : {StrV(W_room), NoneV}, event_url : {NoneV, ListV(<<StrV(W_http_x)>>)},
     event_method : {StrV(W_POST)}, music_on_hold_url : {NoneV, StrV(W_http_x)},
     start_on_enter : {NoneV, BoolV(TRUE)}, end_on_exit : {NoneV, BoolV(FALSE)},
     record : {NoneV}, kwargs : Kwargs]
ConnectArgs ==
    [endpoint : Endpoints, event_url : {NoneV, ListV(<<StrV(W_http_x)>>), ListV(<<>>)},
     event_method : {StrV(W_POST)}, _from : {NoneV, StrV(W_123), BoolV(TRUE)},
     event_type : {NoneV}, timeout : {IntV(60)}, limit : {IntV(7200)},
     machine_detection : {NoneV}, kwargs : Kwargs]
TalkArgs ==
    [text : {StrV(W_hello), NoneV}, barge_in : {BoolV(FALSE), BoolV(TRUE), NoneV},
     loop : {IntV(1), IntV(0)}, voice_name : {StrV(W_Kimberly), NoneV}, kwargs : Kwargs]
StreamArgs ==
    [stream_url : StreamUrls, level : {IntV(0), NoneV}, barge_in : {BoolV(FALSE), BoolV(TRUE)},
     loop : {IntV(1)}, kwargs : Kwargs]
InputArgs ==
    [event_url : UrlLists, time_out : {IntV(3), NoneV}, max_digits : {NoneV, IntV(4)},
     submit_on_hash : {BoolV(FALSE), BoolV(TRUE)}, event_method : {StrV(W_POST)},
     kwargs : Kwargs]

\* options added after construction; all write the key vip
NestedBools == ListV(<<BoolV(TRUE), DictV(W_vip :> BoolV(FALSE))>>)
ActionOptions == {<<W_vip, BoolV(TRUE)>>, <<W_vip, NestedBools>>}
ActionKwargs == {<< <<W_vip, BoolV(FALSE)>> >>}
ActionLists == {<< <<W_vip, ListV(<<BoolV(TRUE)>>)>> >>, << <<W_vip, StrV(W_123)>> >>}

InitAction == NewRequest(FALSE, FALSE)

NextAction ==
    \/ call.op = "Request" /\ \E a \in RecordArgs : NewRecord(a)
    \/ call.op = "Request" /\ \E a \in ConversationArgs : NewConversation(a)
    \/ call.op = "Request" /\ \E a \in ConnectArgs : NewConnect(a)
    \/ call.op = "Request" /\ \E a \in TalkArgs : NewTalk(a)
    \/ call.op = "Request" /\ \E a \in StreamArgs : NewStream(a)
    \/ call.op = "Request" /\ \E a \in InputArgs : NewInput(a)
    \/ \E i \in DOMAIN instances, o \in ActionOptions : AddOption(i, o[1], o[2])
    \/ \E i \in DOMAIN instances, k \in ActionKwargs : AddOptions(i, k)
    \/ \E i \in DOMAIN instances, k \in ActionLists : AddLists(i, NoneV, k)
    \/ \E i \in DOMAIN instances : ClearOptions(i)
    \/ \E r \in DOMAIN requests, i \in DOMAIN instances :
            Len(requests[r].actions) = 0 /\ AddAction(r, i)
    \/ \E r \in DOMAIN requests : GetJsonString(r)

SpecAction == InitAction /\ [][NextAction]_vars

----------------------------------------------------------------------------
(* SpecKey: add_option on an action with no options, for every name of at  *)
(* most MaxNameLen characters over NameAlphabet.                           *)

MaxNameLen == 5
NameAlphabet == {"_", "f", "r", "o", "m", "R", "1"}
Names == UNION {[1..n -> NameAlphabet] : n \in 0..MaxNameLen}

InitKey ==
    /\ instances = <<RequestAction__init__(W_talk, <<>>)>>
    /\ made = <<[op |-> "RequestAction", args |-> <<W_talk, <<>>>>, touched |-> FALSE]>>
    /\ requests = <<>>
    /\ call = Call("RequestAction", 1, <<W_talk, <<>>>>, NoExc, NoneV)
    /\ ResponseAction_options = EmptyDict
    /\ responses = <<>>

NextKey ==
    \/ DOMAIN instances[1].options = {} /\ \E n \in Names : AddOption(1, n, IntV(1))
    \/ DOMAIN instances[1].options # {} /\ ClearOptions(1)

SpecKey == InitKey /\ [][NextKey]_vars

----------------------------------------------------------------------------
(* SpecDict: add_dict on an action with no options, one name=value pair    *)
(* per call, for the names and values below.                               *)

W_headers == <<"h", "e", "a", "d", "e", "r", "s">>
W_a == <<"a">>
DictNames ==
    {W_headers, W_event_url, W_event_Url, W__from, W_custom_flag, W_vip, W_action, W_end_on_silence}
DictValues ==
    {NoneV, DictV(EmptyDict), DictV(W_a :> IntV(1)), PhoneEndpoint, VipEndpoint,
     ListV(<<>>), ListV(<<StrV(W_http_x)>>), ListV(<<PhoneEndpoint>>), TupleV(<<>>),
     TupleV(<<IntV(1)>>), StrV(<<>>), StrV(W_123), IntV(0), IntV(5), BoolV(FALSE), BoolV(TRUE)}

NextDict ==
    \/ DOMAIN instances[1].options = {} /\ \E n \in DictNames, v \in DictValues, s \in BOOLEAN :
            AddDict(1, s, << <<n, v>> >>)
    \/ DOMAIN instances[1].options # {} /\ ClearOptions(1)

SpecDict == InitKey /\ [][NextDict]_vars

----------------------------------------------------------------------------
(* SpecResponse: response-side actions.  Both constructors of response.py  *)
(* raise, so the instances are the ones Talk.__new__ makes, up to          *)
(* MaxResponses of them; options are added to them and cleared.            *)

MaxResponses == 2

InitResponse ==
    /\ instances = <<>>
    /\ made = <<>>
    /\ requests = <<>>
    /\ call = Call("import", 0, <<>>, NoExc, NoneV)
    /\ ResponseAction_options = EmptyDict
    /\ responses = <<>>

ResponseTalkArgs ==
    [text : {StrV(W_hello)}, barge_in : {BoolV(FALSE), BoolV(TRUE)}, loop : {IntV(1)},
     voice_name : {StrV(W_Kimberly)}, kwargs : {<<>>}]
ResponseOptions == {<<W_text, StrV(W_hello)>>, <<W_barge_in, BoolV(TRUE)>>, <<W_loop, IntV(0)>>}
ResponseKwargs == {<< <<W_loop, IntV(1)>>, <<W_voice_name, StrV(W_Kimberly)>> >>}

NextResponse ==
    \/ \E k \in {<<>>} \cup ResponseKwargs : NewResponseAction(W_talk, k)
    \/ \E a \in ResponseTalkArgs : NewResponseTalk(a)
    \/ Len(responses) < MaxResponses /\ ResponseTalk__new__
    \/ \E i \in DOMAIN responses, o \in ResponseOptions : ResponseAddOption(i, o[1], o[2])
    \/ \E i \in DOMAIN responses, k \in ResponseKwargs : ResponseAddOptions(i, k)
    \/ \E i \in DOMAIN responses : ResponseClearOptions(i)

SpecResponse == InitResponse /\ [][NextResponse]_vars

----------------------------------------------------------------------------
(* SpecFrame: two documents side by side.  Request() and                   *)
(* Request(pretty=True), up to MaxInstances Record actions whose options   *)
(* are added and cleared, and each Request is given at most one action.    *)

InitFrame ==
    /\ instances = <<>>
    /\ made = <<>>
    /\ requests = <<Request__init__(FALSE, FALSE, EmptyDict), Request__init__(TRUE, FALSE, EmptyDict)>>
    /\ call = Call("Request", 2, <<TRUE, FALSE>>, NoExc, NoneV)
    /\ ResponseAction_options = EmptyDict
    /\ responses = <<>>

NextFrame ==
    \/ Len(instances) < MaxInstances /\ NewRecord(RecordDefaults)
    \/ \E i \in DOMAIN instances, o \in DocOptions : AddOption(i, o[1], o[2])
    \/ \E i \in DOMAIN instances, k \in ActionLists : AddLists(i, NoneV, k)
    \/ \E i \in DOMAIN instances : ClearOptions(i)
    \/ \E r \in DOMAIN requests, i \in DOMAIN instances :
            Len(requests[r].actions) = 0 /\ AddAction(r, i)

SpecFrame == InitFrame /\ [][NextFrame]_vars

----------------------------------------------------------------------------
(* SpecKind: one action of any of the six kinds, built with the arguments  *)
(* its constructor requires.  Options named action and Action (both have   *)
(* the wire key action) are added to it and cleared, and it is appended    *)
(* to a Request() up to MaxActions times and serialized.                   *)

W_Action == <<"A", "c", "t", "i", "o", "n">>
W_hangup == <<"h", "a", "n", "g", "u", "p">>
KindOptions ==
    {<<W_action, StrV(W_hangup)>>, <<W_action, BoolV(TRUE)>>, <<W_Action, StrV(W_talk)>>}

NextKind ==
    \/ call.op = "Request" /\ NewRecord(RecordDefaults)
    \/ call.op = "Request" /\ NewConversation(ConversationDefaults(StrV(W_room)))
    \/ call.op = "Request" /\
            NewConnect(ConnectDefaults(ListV(<<PhoneEndpoint>>), ListV(<<StrV(W_http_x)>>)))
    \/ call.op = "Request" /\ NewTalk(TalkDefaults(StrV(W_hello)))
    \/ call.op = "Request" /\ NewStream(StreamDefaults(ListV(<<StrV(W_http_x)>>)))
    \/ call.op = "Request" /\ NewInput(InputDefaults)
    \/ \E i \in DOMAIN instances, o \in KindOptions : AddOption(i, o[1], o[2])
    \/ \E i \in DOMAIN instances : ClearOptions(i)
    \/ \E r \in DOMAIN requests, i \in DOMAIN instances :
            Len(requests[r].actions) < MaxActions /\ AddAction(r, i)
    \/ \E r \in DOMAIN requests : GetJsonString(r)

SpecKind == InitAction /\ [][NextKind]_vars

----------------------------------------------------------------------------
(* The claims.  Wire keys and JSON values as the claims write them.        *)

K_action == <<"a", "c", "t", "i", "o", "n">>
K_from == <<"f", "r", "o", "m">>
K_From == <<"F", "r", "o", "m">>
K_eventUrl == <<"e", "v", "e", "n", "t", "U", "r", "l">>
K_eventMethod == <<"e", "v", "e", "n", "t", "M", "e", "t", "h", "o", "d">>
K_format == <<"f", "o", "r", "m", "a", "t">>
K_endOnSilence == <<"e", "n", "d", "O", "n", "S", "i", "l", "e", "n", "c", "e">>
K_endOnKey == <<"e", "n", "d", "O", "n", "K", "e", "y">>
K_timeOut == <<"t", "i", "m", "e", "O", "u", "t">>
K_beepStart == <<"b", "e", "e", "p", "S", "t", "a", "r", "t">>
K_name == <<"n", "a", "m", "e">>
K_musicOnHoldUrl == <<"m", "u", "s", "i", "c", "O", "n", "H", "o", "l", "d", "U", "r", "l">>
K_startOnEnter == <<"s", "t", "a", "r", "t", "O", "n", "E", "n", "t", "e", "r">>
K_endOnExit == <<"e", "n", "d", "O", "n", "E", "x", "i", "t">>
K_record == <<"r", "e", "c", "o", "r", "d">>
K_endpoint == <<"e", "n", "d", "p", "o", "i", "n", "t">>
K_eventType == <<"e", "v", "e", "n", "t", "T", "y", "p", "e">>
K_timeout == <<"t", "i", "m", "e", "o", "u", "t">>
K_limit == <<"l", "i", "m", "i", "t">>
K_machineDetection == <<"m", "a", "c", "h", "i", "n", "e", "D", "e", "t", "e", "c", "t", "i", "o", "n">>
K_text == <<"t", "e", "x", "t">>
K_bargeIn == <<"b", "a", "r", "g", "e", "I", "n">>
K_loop == <<"l", "o", "o", "p">>
K_voiceName == <<"v", "o", "i", "c", "e", "N", "a", "m", "e">>
K_streamUrl == <<"s", "t", "r", "e", "a", "m", "U", "r", "l">>
K_level == <<"l", "e", "v", "e", "l">>
K_maxDigits == <<"m", "a", "x", "D", "i", "g", "i", "t", "s">>
K_submitOnHash == <<"s", "u", "b", "m", "i", "t", "O", "n", "H", "a", "s", "h">>
K_customFlag == <<"c", "u", "s", "t", "o", "m", "F", "l", "a", "g">>

JStr(s) == [j |-> "string", v |-> s]
JNum(n) == [j |-> "number", v |-> n]
JArr(s) == [j |-> "array", v |-> s]
JObj(f) == [j |-> "object", v |-> f]

\* the instance behind the i-th element of the last get_json_string
Element(i) == requests[call.self].actions[i]

\* C1: the document get_json_string returns holds no native boolean (true
\* or false) at any depth: every boolean given as an option value, or
\* nested in a list or mapping option value, is the string "true"/"false".
RECURSIVE HasNativeBool(_)
HasNativeBool(node) ==
    \/ node.j \in {"true", "false"}
    \/ node.j = "array" /\ \E i \in DOMAIN node.v : HasNativeBool(node.v[i])
    \/ node.j = "object" /\ \E k \in DOMAIN node.v : HasNativeBool(node.v[k])
C1_NoNativeBoolean == call.op = "get_json_string" => ~HasNativeBool(call.ret)

\* C1 witness: a Connect whose endpoint mapping holds True, with an option
\* added that nests booleans in a list and a mapping, has been serialized.
C1_Witness ==
    /\ call.op = "get_json_string"
    /\ Len(call.ret.v) = 1
    /\ made[1].op = "Connect"
    /\ made[1].args.endpoint = ListV(<<VipEndpoint>>)
    /\ K_endpoint \in DOMAIN call.ret.v[1].v
    /\ call.ret.v[1].v[K_endpoint] =
            JArr(<<JObj((W_type :> JStr(W_phone)) @@ (W_vip :> JStr(W_true)))>>)
    /\ W_vip \in DOMAIN call.ret.v[1].v
    /\ call.ret.v[1].v[W_vip] = JArr(<<JStr(W_true), JObj(W_vip :> JStr(W_false))>>)

\* The JSON value the claims expect for a Python value v: verbatim, except
\* that with strings = TRUE every boolean is the string "true" or "false".
RECURSIVE ClaimJson(_, _)
ClaimJson(v, strings) ==
    CASE v.t = "NoneType" -> [j |-> "null"]
      [] v.t = "bool" /\ strings -> JStr(IF v.v THEN W_true ELSE W_false)
      [] v.t = "bool" /\ ~strings -> [j |-> IF v.v THEN "true" ELSE "false"]
      [] v.t = "int" -> JNum(v.v)
      [] v.t = "str" -> JStr(v.v)
      [] v.t \in {"list", "tuple"} -> JArr([i \in 1..Len(v.v) |-> ClaimJson(v.v[i], strings)])
      [] v.t = "dict" -> JObj([k \in DOMAIN v.v |-> ClaimJson(v.v[k], strings)])

\* The wire representation of an instance: its options with the key
\* "action" set to its discriminator, booleans rendered as strings.
WireRep(inst) ==
    ClaimJson(DictV([k \in DOMAIN inst.options \cup {K_action} |->
                        IF k = K_action THEN StrV(inst.action) ELSE inst.options[k]]), TRUE)

\* C2: a Request changes only by add_action appending at the end, and
\* get_json_string returns an array with one element per appended action,
\* the i-th being the wire representation of the i-th appended action.
C2_AppendOrder ==
    [][/\ \A r \in DOMAIN requests :
            \/ requests'[r].actions = requests[r].actions
            \/ /\ call'.op = "add_action"
               /\ call'.self = r
               /\ requests'[r].actions = Append(requests[r].actions, call'.args)
       /\ call'.op = "get_json_string" =>
            LET ids == requests[call'.self].actions
            IN  /\ Len(call'.ret.v) = Len(ids)
                /\ \A i \in DOMAIN ids : call'.ret.v[i] = WireRep(instances[ids[i]])
      ]_vars

\* C2 witness: two actions of different kinds were appended in the order
\* opposite to their construction and serialized in that order.
C2_Witness ==
    /\ call.op = "get_json_string"
    /\ requests[1].actions = <<2, 1>>
    /\ instances[1].action # instances[2].action
    /\ Len(call.ret.v) = 2
    /\ call.ret.v[1].v[K_action] = JStr(instances[2].action)
    /\ call.ret.v[2].v[K_action] = JStr(instances[1].action)

\* C3: right after get_json_string returned, calling it again on the same
\* Request returns the same output.
C3_Repeatable ==
    call.op = "get_json_string" =>
        get_json_string(requests[call.self], instances).ret = call.ret

\* C3 witness: a serialized document of two actions, one with an empty
\* options map and one with options.
C3_Witness ==
    /\ call.op = "get_json_string"
    /\ Len(call.ret.v) = 2
    /\ DOMAIN instances[Element(1)].options = {}
    /\ DOMAIN instances[Element(2)].options # {}

\* C9: no instance's options map contains the key "action".
C9_NoActionKey == \A i \in DOMAIN instances : K_action \notin DOMAIN instances[i].options

\* The wire key of the claim for an identifier n, character by character:
\* with no "_" in n, n lower-cased; otherwise the characters of n other
\* than "_", those of the first segment unchanged and those of a later
\* segment title-cased (upper case at the start of a run of letters, lower
\* case inside it).
RECURSIVE ClaimKeyFrom(_, _)
ClaimKeyFrom(n, i) ==
    IF i > Len(n) THEN <<>>
    ELSE LET first == CHOOSE k \in 1..Len(n) : n[k] = "_" /\ \A j \in 1..(k-1) : n[j] # "_"
             cased(c) == islower(c) \/ isupper(c)
             c == IF i < first THEN n[i]
                  ELSE IF cased(n[i-1]) THEN tolower(n[i]) ELSE toupper(n[i])
         IN  (IF n[i] = "_" THEN <<>> ELSE <<c>>) \o ClaimKeyFrom(n, i + 1)
ClaimKey(n) ==
    IF \A i \in 1..Len(n) : n[i] # "_" THEN [i \in 1..Len(n) |-> tolower(n[i])]
    ELSE ClaimKeyFrom(n, 1)

\* C4 as stated: add_option stores its value under ClaimKey(n) for every
\* identifier n.
C4_WireKeyAllNames ==
    call.op = "add_option" => DOMAIN instances[call.self].options = {ClaimKey(call.args[1])}

\* C4 as amended: add_option stores its value under ClaimKey(n) for every
\* identifier n other than "_from", and under "from" for "_from".
C4_WireKey ==
    call.op = "add_option" =>
        DOMAIN instances[call.self].options =
            {IF call.args[1] = W__from THEN K_from ELSE ClaimKey(call.args[1])}

\* C4 witness: the identifier f__rR, with an empty segment and a segment
\* in mixed case, was added and is stored under fRr.
C4_Witness ==
    /\ call.op = "add_option"
    /\ call.args[1] = <<"f", "_", "_", "r", "R">>
    /\ DOMAIN instances[call.self].options = {<<"f", "R", "r">>}

ListOfMappings(v) == v.t = "list" /\ \A i \in DOMAIN v.v : v.v[i].t = "dict"

\* C5: Connect raises ValueError, and leaves no instance, whenever endpoint
\* is not None and is not a list of mappings.
C5_ConnectRejects ==
    (/\ call.op = "Connect"
     /\ ~IsNone(call.args.endpoint)
     /\ ~ListOfMappings(call.args.endpoint))
        => call.exc = "ValueError" /\ instances = <<>>

\* an element of the last get_json_string that comes from an instance built
\* by constructor op and not changed by the caller since
Pristine(i, op) == made[Element(i)].op = op /\ ~made[Element(i)].touched

\* C6: Record() with all defaults serializes to exactly
\* {"action":"record","eventMethod":"POST","format":"mp3"}.
C6_RecordDefaults ==
    call.op = "get_json_string" =>
        \A i \in DOMAIN call.ret.v :
            Pristine(i, "Record") /\ made[Element(i)].args = RecordDefaults =>
                call.ret.v[i] = JObj((K_action :> JStr(W_record))
                                     @@ (K_eventMethod :> JStr(W_POST))
                                     @@ (K_format :> JStr(W_mp3)))

\* C6 witness: a Record() built with all defaults has been serialized.
C6_Witness ==
    /\ call.op = "get_json_string"
    /\ Len(call.ret.v) = 1
    /\ Pristine(1, "Record")
    /\ made[Element(1)].args = RecordDefaults

\* Connect(endpoint=E, event_url=U), with or without _from, E a list of
\* mappings and U a list
ConnectCase(i) ==
    /\ Pristine(i, "Connect")
    /\ LET a == made[Element(i)].args
       IN  /\ ListOfMappings(a.endpoint)
           /\ a.event_url.t = "list"
           /\ a = [ConnectDefaults(a.endpoint, a.event_url) EXCEPT !._from = a._from]
\* its serialization, with E and U as ClaimJson(_, strings) writes them; the
\* value of _from is compared as add_option stores it
ConnectMembers(i, strings) ==
    LET a == made[Element(i)].args
        o == call.ret.v[i].v
    IN  /\ {K_action, K_endpoint, K_eventUrl, K_timeout, K_limit} \subseteq DOMAIN o
        /\ o[K_action] = JStr(W_connect)
        /\ o[K_endpoint] = ClaimJson(a.endpoint, strings)
        /\ o[K_eventUrl] = ClaimJson(a.event_url, strings)
        /\ o[K_timeout] = JNum(60)
        /\ o[K_limit] = JNum(7200)
        /\ ~IsNone(a._from) =>
                /\ K_from \in DOMAIN o
                /\ o[K_from] = ClaimJson(a._from, TRUE)
                /\ K_From \notin DOMAIN o
                /\ W__from \notin DOMAIN o

\* C7 as stated: Connect(endpoint=E, event_url=U) serializes with action
\* "connect", endpoint equal to E, eventUrl equal to U, timeout 60 and
\* limit 7200, and the value of _from under the key "from".
C7_ConnectVerbatim ==
    call.op = "get_json_string" =>
        \A i \in DOMAIN call.ret.v : ConnectCase(i) => ConnectMembers(i, FALSE)

\* C7 as amended: the same, with every boolean nested in E and U rendered
\* as the string "true" or "false".
C7_ConnectNormalized ==
    call.op = "get_json_string" =>
        \A i \in DOMAIN call.ret.v : ConnectCase(i) => ConnectMembers(i, TRUE)

\* C7 witness: Connect(endpoint=[{"type":"phone","vip":True}],
\* event_url=["http://x"], _from="123") has been serialized.
C7_Witness ==
    /\ call.op = "get_json_string"
    /\ Len(call.ret.v) = 1
    /\ ConnectCase(1)
    /\ made[Element(1)].args.endpoint = ListV(<<VipEndpoint>>)
    /\ made[Element(1)].args.event_url = ListV(<<StrV(W_http_x)>>)
    /\ made[Element(1)].args._from = StrV(W_123)
    /\ call.ret.v[1].v[K_from] = JStr(W_123)

\* C8: Stream(stream_url=L) with L a list has the option streamUrl equal to
\* L beside level, bargeIn and loop, and a stream_url that is neither None
\* nor a list is rejected with ValueError.
C8_StreamUrl ==
    call.op = "Stream" =>
        LET u == call.args.stream_url
        IN  /\ u.t = "list" =>
                /\ call.exc = NoExc
                /\ {K_streamUrl, K_level, K_bargeIn, K_loop}
                        \subseteq DOMAIN instances[call.self].options
                /\ instances[call.self].options[K_streamUrl] = u
            /\ (~IsNone(u) /\ u.t # "list") => call.exc = "ValueError"

\* the named parameters of a constructor call: <<value, wire key>>
Named(op, a) ==
    CASE op = "Record" ->
            {<<a.event_url, K_eventUrl>>, <<a.event_method, K_eventMethod>>,
             <<a.format, K_format>>, <<a.end_on_silence, K_endOnSilence>>,
             <<a.end_on_key, K_endOnKey>>, <<a.time_out, K_timeOut>>,
             <<a.beep_start, K_beepStart>>}
      [] op = "Conversation" ->
            {<<a.name, K_name>>, <<a.event_url, K_eventUrl>>,
             <<a.event_method, K_eventMethod>>, <<a.music_on_hold_url, K_musicOnHoldUrl>>,
             <<a.start_on_enter, K_startOnEnter>>, <<a.end_on_exit, K_endOnExit>>,
             <<a.record, K_record>>}
      [] op = "Connect" ->
            {<<a.endpoint, K_endpoint>>, <<a.event_url, K_eventUrl>>,
             <<a.event_method, K_eventMethod>>, <<a._from, K_from>>,
             <<a.event_type, K_eventType>>, <<a.timeout, K_timeout>>, <<a.limit, K_limit>>,
             <<a.machine_detection, K_machineDetection>>}
      [] op = "Talk" ->
            {<<a.text, K_text>>, <<a.barge_in, K_bargeIn>>, <<a.loop, K_loop>>,
             <<a.voice_name, K_voiceName>>}
      [] op = "Stream" ->
            {<<a.stream_url, K_streamUrl>>, <<a.level, K_level>>,
             <<a.barge_in, K_bargeIn>>, <<a.loop, K_loop>>}
      [] op = "Input" ->
            {<<a.event_url, K_eventUrl>>, <<a.time_out, K_timeOut>>,
             <<a.max_digits, K_maxDigits>>, <<a.submit_on_hash, K_submitOnHash>>,
             <<a.event_method, K_eventMethod>>}
Kinds == {"Record", "Conversation", "Connect", "Talk", "Stream", "Input"}

\* C10: after a constructor of any kind, a named parameter that is None
\* has produced no entry in options (an entry under its wire key can only
\* come from a passthrough keyword argument with that wire key), while
\* every passthrough keyword argument has its wire key in options, with
\* the value None when it was None and no named parameter overwrote it.
C10_AbsentAsymmetry ==
    (call.op \in Kinds /\ call.exc = NoExc) =>
        LET a == call.args
            o == instances[call.self].options
            named == Named(call.op, a)
            passed == {ClaimKey(a.kwargs[i][1]) : i \in DOMAIN a.kwargs}
        IN  /\ \A p \in named : (IsNone(p[1]) /\ p[2] \notin passed) => p[2] \notin DOMAIN o
            /\ \A i \in DOMAIN a.kwargs :
                LET key == ClaimKey(a.kwargs[i][1])
                IN  /\ key \in DOMAIN o
                    /\ (/\ IsNone(a.kwargs[i][2])
                        /\ \A p \in named : p[2] = key => IsNone(p[1]))
                            => IsNone(o[key])

\* C10 witness: Talk(text, voice_name=None, custom_flag=None) was built:
\* voiceName is missing and customFlag is recorded as None.
C10_Witness ==
    /\ call.op = "Talk"
    /\ call.exc = NoExc
    /\ IsNone(call.args.voice_name)
    /\ call.args.kwargs = << <<W_custom_flag, NoneV>> >>
    /\ K_voiceName \notin DOMAIN instances[call.self].options
    /\ K_customFlag \in DOMAIN instances[call.self].options
    /\ IsNone(instances[call.self].options[K_customFlag])

\* C11: add_dict enforces the dict shape.  After add_dict(n=v) on an action
\* with no options: when v is a non-empty mapping the call raises nothing
\* and v is recorded under the wire key of n; when v is not None and not a
\* mapping the call raises ValueError and nothing is recorded.
C11_DictShape ==
    call.op = "add_dict" =>
        LET n == call.args[2][1][1]
            v == call.args[2][1][2]
            key == IF n = W__from THEN K_from ELSE ClaimKey(n)
            options == instances[call.self].options
        IN  /\ (v.t = "dict" /\ DOMAIN v.v # {}) =>
                    /\ call.exc = NoExc
                    /\ DOMAIN options = {key}
                    /\ options[key] = v
            /\ (v.t \notin {"dict", "NoneType"}) =>
                    /\ call.exc = "ValueError"
                    /\ DOMAIN options = {}

\* C12: each response-side instance owns its option store.  A call of
\* add_option, add_options or clear_options on one instance leaves the
\* options seen through every other instance as they were.
C12_OwnOptions ==
    [][call'.op \in {"add_option", "add_options", "clear_options"} =>
            \A j \in DOMAIN responses :
                j # call'.self =>
                    ResponseAction_getattr_options(responses'[j], ResponseAction_options')
                        = ResponseAction_getattr_options(responses[j], ResponseAction_options)
      ]_vars

\* C13: no mutable state is shared between request-side instances.  A call
\* of add_option, add_lists or clear_options on one RequestAction leaves
\* the options of every other RequestAction as they were, and add_action
\* on one Request leaves the action list and the serialization options of
\* every other Request as they were.
C13_RequestFrame ==
    [][/\ call'.op \in {"add_option", "add_lists", "clear_options"} =>
            \A j \in DOMAIN instances :
                j # call'.self => instances'[j].options = instances[j].options
       /\ call'.op = "add_action" =>
            \A q \in DOMAIN requests :
                q # call'.self =>
                    /\ requests'[q].actions = requests[q].actions
                    /\ requests'[q].json_options = requests[q].json_options
      ]_vars

\* C13 witness: the options of the first action were cleared while the
\* second action keeps the option added to it, and each Request holds its
\* own action and its own serialization options.
C13_Witness ==
    /\ call.op = "clear_options"
    /\ call.self = 1
    /\ Len(instances) >= 2
    /\ DOMAIN instances[1].options = {}
    /\ K_beepStart \in DOMAIN instances[2].options
    /\ requests[1].actions = <<1>>
    /\ requests[2].actions = <<2>>
    /\ requests[1].json_options # requests[2].json_options

\* the discriminator of each kind
Discriminator(op) ==
    CASE op = "Record" -> K_record
      [] op = "Conversation" -> <<"c", "o", "n", "v", "e", "r", "s", "a", "t", "i", "o", "n">>
      [] op = "Connect" -> <<"c", "o", "n", "n", "e", "c", "t">>
      [] op = "Talk" -> <<"t", "a", "l", "k">>
      [] op = "Stream" -> <<"s", "t", "r", "e", "a", "m">>
      [] op = "Input" -> <<"i", "n", "p", "u", "t">>

\* C14: in every document get_json_string returns, the member "action" of
\* each element is the discriminator of the kind the action was built as,
\* whatever options were added (one named action included) or cleared
\* before, and however often the document was serialized before.
C14_Discriminator ==
    call.op = "get_json_string" =>
        \A i \in DOMAIN call.ret.v :
            /\ K_action \in DOMAIN call.ret.v[i].v
            /\ call.ret.v[i].v[K_action] = JStr(Discriminator(made[Element(i)].op))

\* C14 witness: a serialized Record whose options hold the key action and
\* nothing else.  Serializing does not write into an empty options map, so
\* the options were cleared, an option named action was added, and the
\* element still carries "record".
C14_Witness ==
    /\ call.op = "get_json_string"
    /\ Len(call.ret.v) = 2
    /\ made[Element(1)].op = "Record"
    /\ DOMAIN instances[Element(1)].options = {K_action}
    /\ call.ret.v[1] = JObj(K_action :> JStr(K_record))

====
